---- MODULE Spec2Model ----
(***************************************************************************)
(* Todoki task service: the task status state machine of                   *)
(* api/app/services/task_service.py and the event log it appends to.       *)
(*                                                                         *)
(* The store is three tables: tasks (a function from task id to the task   *)
(* row), task_events and task_comments (sequences of rows in insertion     *)
(* order).  Every request runs one service function inside the session of  *)
(* get_db: the function returns normally and the session commits, or it    *)
(* raises and the session rolls back.  In Spec one action models one        *)
(* request, from the opening of its session to the commit or rollback.     *)
(* In SpecTx the requests of two sessions interleave: a request loads the  *)
(* task, flushes its statements to the store and then commits, and the     *)
(* store (PostgreSQL, READ COMMITTED) locks the rows that flushed and not  *)
(* yet committed statements touch; SpecRace is SpecTx with creations and    *)
(* status transitions only.  SpecReport runs the requests against a clock  *)
(* of hours and adds the report and the "today" listing; SpecAuth puts the *)
(* Authorization header in front of the routes; SpecEdge uses state names  *)
(* that may be empty.  SpecPair interleaves the requests of two sessions   *)
(* on two tasks; SpecMigrate runs the kanban migration of alembic and its  *)
(* downgrade over the tasks table the service has filled.                  *)
(***************************************************************************)
EXTENDS Integers, Sequences, FiniteSets, TLC

\* ------------------------------------------------------------- bounds
\* Rows the task_events table may hold.
MaxEvents == 3
\* Longest states list a request carries.
MaxStates == 2

\* ------------------------------------------------------------- values
\* Python's None where a str is optional (current_state, state, group).
NoneStr == "<None>"

\* Optional list[str]: None, or a list.
NoneList == [isNone |-> TRUE]
Some(l) == [isNone |-> FALSE, list |-> l]

\* TaskType
TODO == "Todo"
STATEFUL == "Stateful"
TaskType == {TODO, STATEFUL}

\* TaskEventType
CREATE == "Create"
DONE == "Done"
OPEN == "Open"
UNARCHIVED == "Unarchived"
ARCHIVED == "Archived"
UPDATE_STATE == "UpdateState"
CREATE_COMMENT == "CreateComment"
TaskEventType == {CREATE, DONE, OPEN, UNARCHIVED, ARCHIVED, UPDATE_STATE, CREATE_COMMENT}

\* Exceptions of core/exceptions.py; NoExc is a normal return.
NoExc == "none"
ResourceNotFoundError == "ResourceNotFoundError"
InvalidStatesError == "InvalidStatesError"
\* Any other exception a request ends with (a failure of the store or of the
\* connection): it is not an HTTPException.
PersistenceError == "PersistenceError"
UnauthorizedError == "UnauthorizedError"
\* FastAPI's answer to a request that lacks a required parameter.
RequestValidationError == "RequestValidationError"

\* The HTTP status code each exception carries.
StatusCode(exc) ==
    CASE exc = ResourceNotFoundError -> 404
      [] exc = InvalidStatesError -> 400
      [] exc = PersistenceError -> 500
      [] exc = UnauthorizedError -> 401
      [] exc = RequestValidationError -> 422
      [] OTHER -> 200

\* create_task: the fewest states a Stateful task may be created with.
MinStates == 2

\* ------------------------------------------------------------- inputs
\* The task ids requests name; uuid4 hands each out at most once.
TaskIds == {1}
\* Readings of datetime.now(UTC).
Times == {0, 1}
\* State names a client uses: the name of the Done sentinel, and the same name in
\* another case.
StateNames == {"Done", "done"}
\* Values of TaskStatusUpdate.status: the two sentinels and other strings.
Statuses == StateNames \cup {"Open"}
\* The editable fields of a request body (priority, content, group): group is
\* None or a label.
Fields ==
    {[priority |-> 0, content |-> "x", group |-> NoneStr],
     [priority |-> 1, content |-> "y", group |-> "work"]}
\* TaskCommentCreate.content
CommentContents == {"c"}

RECURSIVE SeqsUpTo(_, _)
SeqsUpTo(S, n) ==
    IF n = 0 THEN {<<>>}
    ELSE LET shorter == SeqsUpTo(S, n - 1)
         IN  shorter \cup {Append(s, x) : s \in {t \in shorter : Len(t) = n - 1}, x \in S}

\* TaskCreate.states / TaskUpdate.states: None or a list of at most MaxStates names.
StatesPayloads == {NoneList} \cup {Some(l) : l \in SeqsUpTo(StateNames, MaxStates)}

VARIABLES
    tasks,      \* tasks table: task id -> row
    events,     \* task_events table, rows in insertion order
    comments,   \* task_comments table, rows in insertion order
    nextId,     \* number of task ids handed out so far
    now,        \* the last reading of datetime.now(UTC)
    last,       \* the last request that ended, and its outcome
    sess        \* the sessions of the requests in flight

vars == <<tasks, events, comments, nextId, now, last, sess>>

\* ------------------------------------------------------------- python helpers
\* `x or []` for an optional list.
OrEmpty(s) == IF s.isNone THEN <<>> ELSE s.list

\* Truthiness of an optional list: neither None nor empty.
Truthy(s) == ~s.isNone /\ s.list # <<>>

\* Truthiness of an optional str: neither None nor "".
TruthyStr(x) == x # NoneStr /\ x # ""

\* `x in l`
InList(x, l) == \E i \in 1..Len(l) : l[i] = x

\* Mutant of Index: the match ignores case.
Lower(x) == IF x = "Done" THEN "done" ELSE x
Index_IgnoreCase(l, x) ==
    IF \E i \in 1..Len(l) : Lower(l[i]) = Lower(x)
    THEN (CHOOSE i \in 1..Len(l) :
            Lower(l[i]) = Lower(x) /\ \A j \in 1..(i - 1) : Lower(l[j]) # Lower(x)) - 1
    ELSE -1

\* list.index(x): the position of the first occurrence, 0-based; -1 stands for ValueError.
Index(l, x) ==
    IF InList(x, l)
    THEN (CHOOSE i \in 1..Len(l) : l[i] = x /\ \A j \in 1..(i - 1) : l[j] # x) - 1
    ELSE -1

\* `payload.group or "default"`
GroupOrDefault(g) == IF TruthyStr(g) THEN g ELSE "default"

\* The session as a service function sees it: the three tables, and the exception raised.
Db == [tasks |-> tasks, events |-> events, comments |-> comments]
Return(db) == [exc |-> NoExc, db |-> db]
Raise(e, db) == [exc |-> e, db |-> db]

TaskEvent(task_id, event_type, datetime, state) ==
    [task_id |-> task_id, event_type |-> event_type, datetime |-> datetime, state |-> state]

\* The column task_events.from_state of a row: the migration adds it as
\* nullable, TaskEvent does not map it and no INSERT names it, so it is NULL in
\* every row the service writes.
from_state(event) == NoneStr

TaskComment(task_id, create_at, content) ==
    [task_id |-> task_id, create_at |-> create_at, content |-> content]

\* ------------------------------------------------------------- service functions
\* get_task_by_id: the task exists (otherwise ResourceNotFoundError is raised).
Found_Active(db, task_id) ==
    IF task_id \in DOMAIN db.tasks THEN ~db.tasks[task_id].archived ELSE FALSE

Found(db, task_id) == task_id \in DOMAIN db.tasks

\* get_task_by_id(db, task_id): the row is returned, or ResourceNotFoundError is raised.
get_task_by_id(db, task_id) ==
    IF ~Found(db, task_id) THEN Raise(ResourceNotFoundError, db) ELSE Return(db)

\* ------------------------------------------------------------- ORDER BY
\* The rows of a table a query matches come from the heap in no particular
\* order: any arrangement of them.
Heap(rows) ==
    {[i \in 1..Len(rows) |-> rows[p[i]]] :
        p \in {q \in [1..Len(rows) -> 1..Len(rows)] :
                  \A i, j \in 1..Len(rows) : q[i] = q[j] => i = j}}

\* Comparison of two sort keys (tuples of integers of one length), column by column.
RECURSIVE KeyLess(_, _)
KeyLess(a, b) ==
    IF a = << >> THEN FALSE
    ELSE IF Head(a) # Head(b) THEN Head(a) < Head(b)
    ELSE KeyLess(Tail(a), Tail(b))

\* One row placed into a sorted run: before the first row with a greater key.
RECURSIVE Insert(_, _)
Insert(x, run) ==
    IF run = << >> THEN <<x>>
    ELSE IF KeyLess(x.key, Head(run).key) THEN <<x>> \o run
    ELSE <<Head(run)>> \o Insert(x, Tail(run))

\* The sort of keyed rows: rows with equal keys stay in the order they came in.
RECURSIVE Sorted(_)
Sorted(keyed) ==
    IF keyed = << >> THEN << >>
    ELSE Insert(keyed[Len(keyed)], Sorted(SubSeq(keyed, 1, Len(keyed) - 1)))

\* ORDER BY of a result set: the rows in ascending order of their keys;
\* keys[i] is the sort key of rows[i].
order_by(rows, keys) ==
    LET keyed == [i \in 1..Len(rows) |-> [key |-> keys[i], row |-> rows[i]]]
    IN  [i \in 1..Len(rows) |-> Sorted(keyed)[i].row]

asc(column) == <<column>>
desc(column) == <<0 - column>>

\* Mutant of Task_comments: the comments newest first.
Task_comments_Desc(db, task_id) ==
    {order_by(h, [i \in 1..Len(h) |-> desc(h[i].create_at)]) :
        h \in Heap(SelectSeq(db.comments, LAMBDA c : c.task_id = task_id))}

\* Task.comments as selectinload fetches it: the comments of the task,
\* order_by asc(TaskComment.create_at).  The heap order decides between comments
\* of one instant, so the relationship has a set of possible values.
Task_comments(db, task_id) ==
    {order_by(h, [i \in 1..Len(h) |-> asc(h[i].create_at)]) :
        h \in Heap(SelectSeq(db.comments, LAMBDA c : c.task_id = task_id))}

\* Mutant of Task_events: the events oldest first.
Task_events_Asc(db, task_id) ==
    {order_by(h, [i \in 1..Len(h) |-> asc(h[i].datetime)]) :
        h \in Heap(SelectSeq(db.events, LAMBDA e : e.task_id = task_id))}

\* Task.events as selectinload fetches it: the events of the task,
\* order_by desc(TaskEvent.datetime).
Task_events(db, task_id) ==
    {order_by(h, [i \in 1..Len(h) |-> desc(h[i].datetime)]) :
        h \in Heap(SelectSeq(db.events, LAMBDA e : e.task_id = task_id))}

\* What get_task_by_id returns for a task that exists (the detail view): the
\* row with its two relationships loaded.
TaskDetail(db, task_id) ==
    {[task |-> db.tasks[task_id], events |-> ev, comments |-> cm] :
        ev \in Task_events(db, task_id), cm \in Task_comments(db, task_id)}

\* Mutant of StatefulInvalid: the length check off by one.
StatefulInvalid_OffByOne(payload) ==
    payload.task_type = STATEFUL /\ Len(OrEmpty(payload.states)) < MinStates - 1

\* create_task: the check that rejects a Stateful payload.
StatefulInvalid(payload) ==
    payload.task_type = STATEFUL /\ Len(OrEmpty(payload.states)) < MinStates

\* Mutant of InitialState: the last state instead of the first.
InitialState_Last(payload) ==
    IF payload.task_type = STATEFUL
    THEN OrEmpty(payload.states)[Len(OrEmpty(payload.states))]
    ELSE NoneStr

\* create_task: current_state of the new task.
InitialState(payload) ==
    IF payload.task_type = STATEFUL THEN OrEmpty(payload.states)[1] ELSE NoneStr

\* create_task(db, payload).  id is the uuid4 of the new row, t1 and t2 the two
\* readings of datetime.now(UTC).
create_task(db, id, payload, t1, t2) ==
    IF StatefulInvalid(payload)
    THEN Raise(InvalidStatesError, db)
    ELSE LET task == [priority |-> payload.priority,
                      content |-> payload.content,
                      group |-> GroupOrDefault(payload.group),
                      task_type |-> payload.task_type,
                      create_at |-> t1,
                      done |-> FALSE,
                      archived |-> FALSE,
                      current_state |-> InitialState(payload),
                      states |-> payload.states]
         IN  Return([db EXCEPT !.tasks = (id :> task) @@ db.tasks,
                               !.events = Append(db.events, TaskEvent(id, CREATE, t2, NoneStr))])

\* update_task: current_state re-derived from the old current_state and the new list.
RederiveState(old_state, new_states) ==
    IF Truthy(new_states)
    THEN IF TruthyStr(old_state) /\ InList(old_state, new_states.list)
         THEN old_state
         ELSE new_states.list[1]
    ELSE NoneStr

\* Mutant of RederiveType: a list that is not None, empty or not, makes the task Stateful.
RederiveType_NotNone(new_states) == IF ~new_states.isNone THEN STATEFUL ELSE TODO

\* update_task: task_type re-derived from the new list.
RederiveType(new_states) == IF Truthy(new_states) THEN STATEFUL ELSE TODO

\* Mutant of update_task: an edit that moves current_state records an UpdateState event.
update_task_Reopen(db, task_id, payload) ==
    IF ~Found(db, task_id) THEN Raise(ResourceNotFoundError, db)
    ELSE LET task == db.tasks[task_id] IN
         Return([db EXCEPT !.tasks[task_id] =
                    [task EXCEPT !.priority = payload.priority,
                                 !.content = payload.content,
                                 !.group = GroupOrDefault(payload.group),
                                 !.states = payload.states,
                                 !.current_state = RederiveState(task.current_state, payload.states),
                                 !.task_type = RederiveType(payload.states),
                                 !.done = FALSE]])

update_task_Emit(db, task_id, payload) ==
    IF ~Found(db, task_id) THEN Raise(ResourceNotFoundError, db)
    ELSE LET task == db.tasks[task_id]
             current_state == RederiveState(task.current_state, payload.states)
         IN  Return([db EXCEPT !.tasks[task_id] =
                        [task EXCEPT !.priority = payload.priority,
                                     !.content = payload.content,
                                     !.group = GroupOrDefault(payload.group),
                                     !.states = payload.states,
                                     !.current_state = current_state,
                                     !.task_type = RederiveType(payload.states)],
                               !.events = IF current_state = task.current_state THEN db.events
                                          ELSE Append(db.events,
                                                   TaskEvent(task_id, UPDATE_STATE, 0, current_state))])

\* update_task(db, task_id, payload)
update_task(db, task_id, payload) ==
    IF ~Found(db, task_id) THEN Raise(ResourceNotFoundError, db)
    ELSE LET task == db.tasks[task_id] IN
         Return([db EXCEPT !.tasks[task_id] =
                    [task EXCEPT !.priority = payload.priority,
                                 !.content = payload.content,
                                 !.group = GroupOrDefault(payload.group),
                                 !.states = payload.states,
                                 !.current_state = RederiveState(task.current_state, payload.states),
                                 !.task_type = RederiveType(payload.states)]])

\* update_task_status, Todo branch: is_done.
TodoIsDone(status) == status = "Done"

\* Mutant of TodoEventType: a Done event whatever the flag.
TodoEventType_AlwaysDone(is_done) == DONE

\* update_task_status, Todo branch: the kind of the event.
TodoEventType(is_done) == IF is_done THEN DONE ELSE OPEN

\* Mutant of IsDone: terminal when the target has the name of the last entry.
IsDone_ByName(pos, states) == states[pos + 1] = states[Len(states)]

\* update_task_status, Stateful branch: is_done, from the 0-based position of the target.
IsDone(pos, states) == pos = Len(states) - 1

\* Mutant of StatefulEvents: the UpdateState event does not carry the target state.
StatefulEvents_NoState(task_id, next_state, is_done, t1, t2) ==
    IF is_done
    THEN <<TaskEvent(task_id, UPDATE_STATE, t1, NoneStr), TaskEvent(task_id, DONE, t2, NoneStr)>>
    ELSE <<TaskEvent(task_id, UPDATE_STATE, t1, NoneStr)>>

\* Mutant of StatefulEvents: the UpdateState event carries the state in lower case.
StatefulEvents_Lower(task_id, next_state, is_done, t1, t2) ==
    IF is_done
    THEN <<TaskEvent(task_id, UPDATE_STATE, t1, Lower(next_state)),
           TaskEvent(task_id, DONE, t2, NoneStr)>>
    ELSE <<TaskEvent(task_id, UPDATE_STATE, t1, Lower(next_state))>>

\* update_task_status, Stateful branch: the events added, in the order of db.add.
StatefulEvents(task_id, next_state, is_done, t1, t2) ==
    IF is_done
    THEN <<TaskEvent(task_id, UPDATE_STATE, t1, next_state), TaskEvent(task_id, DONE, t2, NoneStr)>>
    ELSE <<TaskEvent(task_id, UPDATE_STATE, t1, next_state)>>

\* Mutant of update_task_status: a Stateful task that is already in the target
\* state is returned as it is, with no event.
update_task_status_Idempotent(db, task_id, status, t1, t2) ==
    IF ~Found(db, task_id) THEN Raise(ResourceNotFoundError, db)
    ELSE LET task == db.tasks[task_id] IN
         IF task.task_type = TODO
         THEN LET is_done == TodoIsDone(status) IN
              Return([db EXCEPT !.tasks[task_id].done = is_done,
                                !.events = Append(db.events,
                                    TaskEvent(task_id, TodoEventType(is_done), t1, NoneStr))])
         ELSE LET next_state == status
                  states == OrEmpty(task.states)
                  pos == Index(states, next_state)
                  is_done == IsDone(pos, states)
              IN  IF pos = -1 THEN Raise(InvalidStatesError, db)
                  ELSE IF task.current_state = next_state THEN Return(db)
                  ELSE Return([db EXCEPT !.tasks[task_id].current_state = next_state,
                                         !.tasks[task_id].done = is_done,
                                         !.events = db.events \o
                                             StatefulEvents(task_id, next_state, is_done, t1, t2)])

\* update_task_status(db, task_id, payload), payload.status = status; t1 and t2 are
\* the readings of datetime.now(UTC) (t2 is read only for the Done event of the
\* Stateful branch).
update_task_status(db, task_id, status, t1, t2) ==
    IF ~Found(db, task_id) THEN Raise(ResourceNotFoundError, db)
    ELSE LET task == db.tasks[task_id] IN
         IF task.task_type = TODO
         THEN LET is_done == TodoIsDone(status) IN
              Return([db EXCEPT !.tasks[task_id].done = is_done,
                                !.events = Append(db.events,
                                    TaskEvent(task_id, TodoEventType(is_done), t1, NoneStr))])
         ELSE LET next_state == status
                  states == OrEmpty(task.states)
                  pos == Index(states, next_state)
                  is_done == IsDone(pos, states)
              IN  IF pos = -1 THEN Raise(InvalidStatesError, db)
                  ELSE Return([db EXCEPT !.tasks[task_id].current_state = next_state,
                                         !.tasks[task_id].done = is_done,
                                         !.events = db.events \o
                                             StatefulEvents(task_id, next_state, is_done, t1, t2)])

\* Mutant of archive_task: an archived task is returned as it is, with no event.
archive_task_Closes(db, task_id, t1) ==
    IF ~Found(db, task_id) THEN Raise(ResourceNotFoundError, db)
    ELSE Return([db EXCEPT !.tasks[task_id].archived = TRUE,
                           !.tasks[task_id].done = TRUE,
                           !.events = Append(db.events, TaskEvent(task_id, ARCHIVED, t1, NoneStr))])

archive_task_Dedup(db, task_id, t1) ==
    IF ~Found(db, task_id) THEN Raise(ResourceNotFoundError, db)
    ELSE IF db.tasks[task_id].archived THEN Return(db)
    ELSE Return([db EXCEPT !.tasks[task_id].archived = TRUE,
                           !.events = Append(db.events, TaskEvent(task_id, ARCHIVED, t1, NoneStr))])

\* Mutant of archive_task: one Archived event per task, the earlier ones are replaced.
archive_task_Upsert(db, task_id, t1) ==
    IF ~Found(db, task_id) THEN Raise(ResourceNotFoundError, db)
    ELSE Return([db EXCEPT !.tasks[task_id].archived = TRUE,
                           !.events = Append(SelectSeq(db.events,
                                                 LAMBDA e : ~(e.task_id = task_id /\ e.event_type = ARCHIVED)),
                                             TaskEvent(task_id, ARCHIVED, t1, NoneStr))])

\* archive_task(db, task_id)
archive_task(db, task_id, t1) ==
    IF ~Found(db, task_id) THEN Raise(ResourceNotFoundError, db)
    ELSE Return([db EXCEPT !.tasks[task_id].archived = TRUE,
                           !.events = Append(db.events, TaskEvent(task_id, ARCHIVED, t1, NoneStr))])

\* Mutant of unarchive_task: a task that is not archived is returned as it is, with no event.
unarchive_task_KeepFlag(db, task_id, t1) ==
    IF ~Found(db, task_id) THEN Raise(ResourceNotFoundError, db)
    ELSE Return([db EXCEPT !.events = Append(db.events, TaskEvent(task_id, UNARCHIVED, t1, NoneStr))])

unarchive_task_Dedup(db, task_id, t1) ==
    IF ~Found(db, task_id) THEN Raise(ResourceNotFoundError, db)
    ELSE IF ~db.tasks[task_id].archived THEN Return(db)
    ELSE Return([db EXCEPT !.tasks[task_id].archived = FALSE,
                           !.events = Append(db.events, TaskEvent(task_id, UNARCHIVED, t1, NoneStr))])

\* unarchive_task(db, task_id)
unarchive_task(db, task_id, t1) ==
    IF ~Found(db, task_id) THEN Raise(ResourceNotFoundError, db)
    ELSE Return([db EXCEPT !.tasks[task_id].archived = FALSE,
                           !.events = Append(db.events, TaskEvent(task_id, UNARCHIVED, t1, NoneStr))])

\* Mutant of delete_task: the row and its events go, its comments stay.
delete_task_KeepComments(db, task_id) ==
    IF ~Found(db, task_id) THEN Raise(ResourceNotFoundError, db)
    ELSE Return([tasks |-> [i \in DOMAIN db.tasks \ {task_id} |-> db.tasks[i]],
                 events |-> SelectSeq(db.events, LAMBDA e : e.task_id # task_id),
                 comments |-> db.comments])

\* Mutant of delete_task: the events and comments of every task go.
delete_task_Truncate(db, task_id) ==
    IF ~Found(db, task_id) THEN Raise(ResourceNotFoundError, db)
    ELSE Return([tasks |-> [i \in DOMAIN db.tasks \ {task_id} |-> db.tasks[i]],
                 events |-> << >>,
                 comments |-> << >>])

\* delete_task(db, task_id): the row goes, and with it (cascade) its events and comments.
delete_task(db, task_id) ==
    IF ~Found(db, task_id) THEN Raise(ResourceNotFoundError, db)
    ELSE Return([tasks |-> [i \in DOMAIN db.tasks \ {task_id} |-> db.tasks[i]],
                 events |-> SelectSeq(db.events, LAMBDA e : e.task_id # task_id),
                 comments |-> SelectSeq(db.comments, LAMBDA c : c.task_id # task_id)])

\* Mutant of add_task_comment: the comment is stored without loading the task.
add_task_comment_Logged(db, task_id, content, t1) ==
    IF ~Found(db, task_id) THEN Raise(ResourceNotFoundError, db)
    ELSE Return([db EXCEPT !.comments = Append(db.comments, TaskComment(task_id, t1, content)),
                           !.events = Append(db.events,
                               TaskEvent(task_id, CREATE_COMMENT, t1, NoneStr))])

add_task_comment_NoLookup(db, task_id, content, t1) ==
    Return([db EXCEPT !.comments = Append(db.comments, TaskComment(task_id, t1, content))])

\* add_task_comment(db, task_id, content)
add_task_comment(db, task_id, content, t1) ==
    IF ~Found(db, task_id) THEN Raise(ResourceNotFoundError, db)
    ELSE Return([db EXCEPT !.comments = Append(db.comments, TaskComment(task_id, t1, content))])

\* ------------------------------------------------------------- requests
\* get_db: commit when the service function returned, roll back when it raised.
get_db(r) ==
    /\ UNCHANGED sess
    /\ IF r.exc = NoExc
       THEN /\ tasks' = r.db.tasks
            /\ events' = r.db.events
            /\ comments' = r.db.comments
       ELSE UNCHANGED <<tasks, events, comments>>

\* The event and comment tables together stay within the bound of the model.
Fits(r) == Len(r.db.events) + Len(r.db.comments) <= MaxEvents

\* A reading of the clock that follows the reading `t`: the clock does not run backwards.
Later(t) == {u \in Times : t <= u /\ u <= t + 1}

\* The body of a request that has none.
NoPayload ==
    [priority |-> 0, content |-> "", group |-> NoneStr, task_type |-> TODO, states |-> NoneList]

\* What `last` records of a request: the operation, the id in the path, the body
\* (payload for create and update, status for a status change) and the exception raised.
Request(op, task_id, payload, status, exc) ==
    [op |-> op, task_id |-> task_id, payload |-> payload, status |-> status, exc |-> exc]

\* The body of POST /tasks/{task_id}/comments: only content is sent.
TaskCommentCreate(content) == [NoPayload EXCEPT !.content = content]

\* Request bodies of POST /tasks.
TaskCreate ==
    {[priority |-> f.priority, content |-> f.content, group |-> f.group,
      task_type |-> ty, states |-> st] : f \in Fields, ty \in TaskType, st \in StatesPayloads}

\* Request bodies of PUT /tasks/{task_id}: TaskUpdate has no task_type field.
TaskUpdate ==
    {[priority |-> f.priority, content |-> f.content, group |-> f.group,
      task_type |-> TODO, states |-> st] : f \in Fields, st \in StatesPayloads}

\* The connections requests run on.
Sessions == {"A", "B"}

\* A session that runs no request.
Idle == [pc |-> "idle"]

Init ==
    /\ sess = [s \in Sessions |-> Idle]
    /\ tasks = << >>
    /\ events = << >>
    /\ comments = << >>
    /\ nextId = 0
    /\ now = 0
    /\ last = Request("init", 0, NoPayload, NoneStr, NoExc)

\* POST /tasks
CreateTaskReq(payload, t1, t2) ==
    LET r == create_task(Db, nextId + 1, payload, t1, t2) IN
    /\ nextId + 1 \in TaskIds
    /\ Fits(r)
    /\ get_db(r)
    /\ nextId' = IF r.exc = NoExc THEN nextId + 1 ELSE nextId
    /\ now' = IF r.exc = NoExc THEN t2 ELSE now
    /\ last' = Request("create", nextId + 1, payload, NoneStr, r.exc)

CreateTask ==
    \E payload \in TaskCreate, t1 \in Later(now) : \E t2 \in Later(t1) :
        CreateTaskReq(payload, t1, t2)

\* GET /tasks/{task_id}
GetTaskReq(task_id) ==
    LET r == get_task_by_id(Db, task_id) IN
    /\ get_db(r)
    /\ last' = Request("get", task_id, NoPayload, NoneStr, r.exc)
    /\ UNCHANGED <<nextId, now>>

GetTask == \E task_id \in TaskIds : GetTaskReq(task_id)

\* PUT /tasks/{task_id}
UpdateTaskReq(task_id, payload) ==
    LET r == update_task(Db, task_id, payload) IN
    /\ get_db(r)
    /\ last' = Request("update", task_id, payload, NoneStr, r.exc)
    /\ UNCHANGED <<nextId, now>>

UpdateTask == \E task_id \in TaskIds, payload \in TaskUpdate : UpdateTaskReq(task_id, payload)

\* POST /tasks/{task_id}/status
UpdateTaskStatusReq(task_id, status, t1, t2) ==
    LET r == update_task_status(Db, task_id, status, t1, t2)
        n == Len(r.db.events) - Len(events)
    IN
    /\ Fits(r)
    /\ n = 2 \/ t2 = t1
    /\ get_db(r)
    /\ now' = IF r.exc = NoExc THEN t2 ELSE now
    /\ last' = Request("status", task_id, NoPayload, status, r.exc)
    /\ UNCHANGED nextId

UpdateTaskStatus ==
    \E task_id \in TaskIds, status \in Statuses, t1 \in Later(now) : \E t2 \in Later(t1) :
        UpdateTaskStatusReq(task_id, status, t1, t2)

\* POST /tasks/{task_id}/archive
ArchiveTaskReq(task_id, t1) ==
    LET r == archive_task(Db, task_id, t1) IN
    /\ Fits(r)
    /\ get_db(r)
    /\ now' = IF r.exc = NoExc THEN t1 ELSE now
    /\ last' = Request("archive", task_id, NoPayload, NoneStr, r.exc)
    /\ UNCHANGED nextId

ArchiveTask == \E task_id \in TaskIds, t1 \in Later(now) : ArchiveTaskReq(task_id, t1)

\* POST /tasks/{task_id}/unarchive
UnarchiveTaskReq(task_id, t1) ==
    LET r == unarchive_task(Db, task_id, t1) IN
    /\ Fits(r)
    /\ get_db(r)
    /\ now' = IF r.exc = NoExc THEN t1 ELSE now
    /\ last' = Request("unarchive", task_id, NoPayload, NoneStr, r.exc)
    /\ UNCHANGED nextId

UnarchiveTask == \E task_id \in TaskIds, t1 \in Later(now) : UnarchiveTaskReq(task_id, t1)

\* DELETE /tasks/{task_id}
DeleteTaskReq(task_id) ==
    LET r == delete_task(Db, task_id) IN
    /\ get_db(r)
    /\ last' = Request("delete", task_id, NoPayload, NoneStr, r.exc)
    /\ UNCHANGED <<nextId, now>>

DeleteTask == \E task_id \in TaskIds : DeleteTaskReq(task_id)

\* POST /tasks/{task_id}/comments
AddCommentReq(task_id, content, t1) ==
    LET r == add_task_comment(Db, task_id, content, t1) IN
    /\ Fits(r)
    /\ get_db(r)
    /\ now' = IF r.exc = NoExc THEN t1 ELSE now
    /\ last' = Request("comment", task_id, TaskCommentCreate(content), NoneStr, r.exc)
    /\ UNCHANGED nextId

AddComment ==
    \E task_id \in TaskIds, content \in CommentContents, t1 \in Later(now) :
        AddCommentReq(task_id, content, t1)

Next ==
    \/ CreateTask
    \/ GetTask
    \/ UpdateTask
    \/ UpdateTaskStatus
    \/ ArchiveTask
    \/ UnarchiveTask
    \/ DeleteTask
    \/ AddComment

Spec == Init /\ [][Next]_vars

\* ------------------------------------------------------------- empty state name
\* State names of a client that uses the empty string as a name: no schema
\* rejects it.
EdgeNames == {"", "Done"}

\* TaskCreate.states / TaskUpdate.states over these names.
EdgeStates == {NoneList} \cup {Some(l) : l \in SeqsUpTo(EdgeNames, MaxStates)}

\* Request bodies of POST /tasks and PUT /tasks/{task_id} over these names.
EdgeCreates ==
    {[priority |-> 0, content |-> "x", group |-> NoneStr, task_type |-> ty, states |-> st] :
        ty \in TaskType, st \in EdgeStates}
EdgeUpdates ==
    {[priority |-> 0, content |-> "x", group |-> NoneStr, task_type |-> TODO, states |-> st] :
        st \in EdgeStates}

\* POST /tasks
EdgeCreateTask == \E payload \in EdgeCreates : CreateTaskReq(payload, now, now)

\* PUT /tasks/{task_id}
EdgeUpdateTask == \E task_id \in TaskIds, payload \in EdgeUpdates : UpdateTaskReq(task_id, payload)

\* POST /tasks/{task_id}/status
EdgeUpdateTaskStatus ==
    \E task_id \in TaskIds, status \in EdgeNames : UpdateTaskStatusReq(task_id, status, now, now)

NextEdge ==
    \/ EdgeCreateTask
    \/ EdgeUpdateTask
    \/ EdgeUpdateTaskStatus

SpecEdge == Init /\ [][NextEdge]_vars

\* ------------------------------------------------------------- report and listing
\* Time in this part is counted in hours since midnight UTC of some day 0.
HoursPerDay == 24
\* 'Asia/Hong_Kong' is eight hours ahead of UTC, all year.
HongKongOffset == 8

\* Instants of the clock: one hour before and one hour into a Hong Kong day
\* (759, 760; both on one UTC day), the instants 7 days before 760 and one hour
\* earlier (592, 591), and the instants 30 days before 760 and one hour earlier
\* (40, 39).
Ticks == {39, 40, 591, 592, 759, 760}
LaterTicks(t) == {u \in Ticks : t <= u}

\* ReportPeriod
TODAY == "today"
WEEK == "week"
MONTH == "month"
ReportPeriod == {TODAY, WEEK, MONTH}

\* (t AT TIME ZONE 'Asia/Hong_Kong')::date, as a day number.
HongKongDate(t) == (t + HongKongOffset) \div HoursPerDay

\* get_report: interval_map, in days.
interval_map(period) ==
    CASE period = TODAY -> 0
      [] period = WEEK -> 7
      [] period = MONTH -> 30

\* Mutant of date_filter: an event exactly one interval old is left out.
date_filter_Strict(period, datetime, NOW) ==
    IF period = TODAY
    THEN HongKongDate(datetime) = HongKongDate(NOW)
    ELSE datetime > NOW - interval_map(period) * HoursPerDay

\* get_report: date_filter, the WHERE clause over task_events; NOW is the
\* instant of the query.
date_filter(period, datetime, NOW) ==
    IF period = TODAY
    THEN HongKongDate(datetime) = HongKongDate(NOW)
    ELSE datetime >= NOW - interval_map(period) * HoursPerDay

\* COUNT(*) FILTER (WHERE event_type = kind) over the matched rows.
COUNT(rows, kind) == Cardinality({i \in 1..Len(rows) : rows[i].event_type = kind})

\* Mutant of fetchone: an aggregate over no rows yields no row.
fetchone_Grouped(rows) ==
    IF rows = << >> THEN << >>
    ELSE <<COUNT(rows, CREATE), COUNT(rows, DONE), COUNT(rows, ARCHIVED),
           COUNT(rows, UPDATE_STATE), COUNT(rows, CREATE_COMMENT)>>

\* The row of the report query: an aggregate without GROUP BY yields one row,
\* also over no rows.
fetchone(rows) ==
    <<COUNT(rows, CREATE), COUNT(rows, DONE), COUNT(rows, ARCHIVED),
      COUNT(rows, UPDATE_STATE), COUNT(rows, CREATE_COMMENT)>>

\* Python's `x or 0` on a count.
OrZero(x) == IF x = 0 THEN 0 ELSE x

ReportResponse(period, row) ==
    [period |-> period,
     created_count |-> OrZero(row[1]),
     done_count |-> OrZero(row[2]),
     archived_count |-> OrZero(row[3]),
     state_changes_count |-> OrZero(row[4]),
     comments_count |-> OrZero(row[5])]

\* The body of a response that has none.
NoBody == << >>

\* get_report(db, period), the query running at instant NOW.  Subscripting a
\* missing row is a TypeError.
get_report(db, period, NOW) ==
    LET row == fetchone(SelectSeq(db.events, LAMBDA e : date_filter(period, e.datetime, NOW)))
    IN  IF row = << >>
        THEN [exc |-> PersistenceError, db |-> db, body |-> NoBody]
        ELSE [exc |-> NoExc, db |-> db, body |-> ReportResponse(period, row)]

\* Mutant of task_latest_active_datetime: the first event of the task.
task_latest_active_datetime_First(db, task_id) ==
    LET evs == SelectSeq(db.events, LAMBDA e : e.task_id = task_id)
    IN  {e.datetime : e \in {x \in {evs[i] : i \in 1..Len(evs)} :
                                \A i \in 1..Len(evs) : x.datetime <= evs[i].datetime}}

\* get_today_tasks: the CTE task_latest_active_datetime, DISTINCT ON (task_id)
\* ... ORDER BY task_id, datetime DESC: the datetime of the latest event of the
\* task; no row for a task without events.
task_latest_active_datetime(db, task_id) ==
    LET evs == SelectSeq(db.events, LAMBDA e : e.task_id = task_id)
    IN  {e.datetime : e \in {x \in {evs[i] : i \in 1..Len(evs)} :
                                \A i \in 1..Len(evs) : evs[i].datetime <= x.datetime}}

\* get_today_tasks: the ids the first query selects.
task_ids(db, NOW) ==
    {id \in DOMAIN db.tasks :
        \/ db.tasks[id].done = FALSE /\ db.tasks[id].archived = FALSE
        \/ \E d \in task_latest_active_datetime(db, id) :
              HongKongDate(d) = HongKongDate(NOW)}

\* An arrangement of a set, as a sequence.
Arrangements(S) ==
    {l \in [1..Cardinality(S) -> S] : \A i, j \in 1..Cardinality(S) : l[i] = l[j] => i = j}

\* get_today_tasks(db), the queries running at instant NOW: the ids of the tasks
\* returned, order_by priority desc, create_at desc.  The set of lists the
\* ordering allows.
get_today_tasks(db, NOW) ==
    {order_by(h, [i \in 1..Len(h) |->
                        desc(db.tasks[h[i]].priority) \o desc(db.tasks[h[i]].create_at)]) :
        h \in Arrangements(task_ids(db, NOW))}

\* What `last` records of a request that is answered with a body.
Response(op, period, exc, body) ==
    [op |-> op, task_id |-> 0, payload |-> NoPayload, status |-> period, exc |-> exc,
     body |-> body]

\* GET /report?period=...
GetReportReq(period, NOW) ==
    LET r == get_report(Db, period, NOW) IN
    /\ get_db(r)
    /\ now' = NOW
    /\ last' = Response("report", period, r.exc, r.body)
    /\ UNCHANGED nextId

GetReport == \E period \in ReportPeriod, NOW \in LaterTicks(now) : GetReportReq(period, NOW)

\* GET /tasks
GetTodayTasksReq(NOW) ==
    \E l \in get_today_tasks(Db, NOW) :
        /\ get_db(Return(Db))
        /\ now' = NOW
        /\ last' = Response("today", NoneStr, NoExc, l)
        /\ UNCHANGED nextId

GetTodayTasks == \E NOW \in LaterTicks(now) : GetTodayTasksReq(NOW)

\* Request bodies of POST /tasks in this part: a Todo task and a Stateful one.
ReportCreates ==
    {p \in TaskCreate : /\ p.priority = 0 /\ p.group = NoneStr
                        /\ \/ p.task_type = TODO /\ p.states = NoneList
                           \/ p.task_type = STATEFUL /\ p.states = Some(<<"Done", "done">>)}

\* The mutating requests, each reading the clock once.
ClockCreateTask ==
    \E payload \in ReportCreates, t \in LaterTicks(now) : CreateTaskReq(payload, t, t)
ClockUpdateTaskStatus ==
    \E task_id \in TaskIds, status \in Statuses, t \in LaterTicks(now) :
        UpdateTaskStatusReq(task_id, status, t, t)
ClockArchiveTask == \E task_id \in TaskIds, t \in LaterTicks(now) : ArchiveTaskReq(task_id, t)
ClockAddComment ==
    \E task_id \in TaskIds, content \in CommentContents, t \in LaterTicks(now) :
        AddCommentReq(task_id, content, t)

NextReport ==
    \/ ClockCreateTask
    \/ ClockUpdateTaskStatus
    \/ ClockArchiveTask
    \/ ClockAddComment
    \/ GetReport
    \/ GetTodayTasks

SpecReport == Init /\ [][NextReport]_vars

\* ------------------------------------------------------------- authentication
\* Strings are sequences of characters here.  "Bearer ", and settings.user_token.
Bearer == <<"B", "e", "a", "r", "e", "r", " ">>
user_token == <<"t">>

\* str.startswith
startswith(str, prefix) ==
    Len(str) >= Len(prefix) /\ SubSeq(str, 1, Len(prefix)) = prefix

\* authorization[7:] starts at this index.
TokenStart == 7

\* str[start:]
slice(str, start) == SubSeq(str, start + 1, Len(str))

\* Values of the Authorization header: absent (NoneList), the configured
\* token, another token, no token, the token without the scheme, the scheme in
\* lower case, and the token after two spaces.
Headers ==
    {NoneList,
     Some(Bearer \o user_token),
     Some(Bearer \o <<"x">>),
     Some(Bearer),
     Some(user_token),
     Some(<<"b", "e", "a", "r", "e", "r", " ">> \o user_token),
     Some(Bearer \o <<" ">> \o user_token)}

\* verify_token(authorization): the exception the dependency ends with.  The
\* parameter is Header(...), a required one: without the header FastAPI does
\* not call the function and answers with its validation error.
verify_token(authorization) ==
    IF authorization.isNone THEN RequestValidationError
    ELSE IF ~startswith(authorization.list, Bearer) THEN UnauthorizedError
    ELSE IF slice(authorization.list, TokenStart) # user_token THEN UnauthorizedError
    ELSE NoExc

\* What `last` records of a request of this part: the header as well.
AuthRequest(op, task_id, authorization, exc) ==
    [op |-> op, task_id |-> task_id, payload |-> NoPayload, status |-> NoneStr, exc |-> exc,
     authorization |-> authorization]

\* A route with the parameters (_: AuthDep, db: DbSession, ...): when
\* verify_token fails the handler does not run and no statement reaches the
\* store; otherwise the handler runs in its session, with result r.
Route(op, task_id, authorization, r) ==
    LET e == verify_token(authorization) IN
    IF e # NoExc
    THEN /\ UNCHANGED <<tasks, events, comments, nextId, now, sess>>
         /\ last' = AuthRequest(op, task_id, authorization, e)
    ELSE /\ Fits(r)
         /\ get_db(r)
         /\ nextId' = IF op = "create" /\ r.exc = NoExc THEN nextId + 1 ELSE nextId
         /\ last' = AuthRequest(op, task_id, authorization, r.exc)
         /\ UNCHANGED now

\* The body of POST /tasks in this part.
AuthCreate ==
    [priority |-> 0, content |-> "x", group |-> NoneStr, task_type |-> TODO, states |-> NoneList]

AuthCreateTask ==
    \E authorization \in Headers :
        /\ nextId + 1 \in TaskIds
        /\ Route("create", nextId + 1, authorization,
                 create_task(Db, nextId + 1, AuthCreate, now, now))
AuthGetTask ==
    \E authorization \in Headers, task_id \in TaskIds :
        Route("get", task_id, authorization, get_task_by_id(Db, task_id))
AuthArchiveTask ==
    \E authorization \in Headers, task_id \in TaskIds :
        Route("archive", task_id, authorization, archive_task(Db, task_id, now))
AuthDeleteTask ==
    \E authorization \in Headers, task_id \in TaskIds :
        Route("delete", task_id, authorization, delete_task(Db, task_id))
AuthAddComment ==
    \E authorization \in Headers, task_id \in TaskIds, content \in CommentContents :
        Route("comment", task_id, authorization, add_task_comment(Db, task_id, content, now))

NextAuth ==
    \/ AuthCreateTask
    \/ AuthGetTask
    \/ AuthArchiveTask
    \/ AuthDeleteTask
    \/ AuthAddComment

SpecAuth == Init /\ [][NextAuth]_vars

\* ------------------------------------------------------------- transactions
\* The columns of the tasks table.
Columns ==
    {"priority", "content", "group", "task_type", "create_at", "done", "archived",
     "current_state", "states"}

\* A row of default values; it stands for the columns a write set does not name.
BlankRow ==
    [priority |-> 0, content |-> "", group |-> NoneStr, task_type |-> TODO, create_at |-> 0,
     done |-> FALSE, archived |-> FALSE, current_state |-> NoneStr, states |-> NoneList]

\* The attributes of a loaded row whose value the request changed: the flush
\* writes these columns, and no UPDATE when there is none.
Changed(old, new) == {c \in Columns : old[c] # new[c]}

\* The row `old` with the columns `cols` taken from `new`.
Merge(old, new, cols) ==
    [priority |-> IF "priority" \in cols THEN new.priority ELSE old.priority,
     content |-> IF "content" \in cols THEN new.content ELSE old.content,
     group |-> IF "group" \in cols THEN new.group ELSE old.group,
     task_type |-> IF "task_type" \in cols THEN new.task_type ELSE old.task_type,
     create_at |-> IF "create_at" \in cols THEN new.create_at ELSE old.create_at,
     done |-> IF "done" \in cols THEN new.done ELSE old.done,
     archived |-> IF "archived" \in cols THEN new.archived ELSE old.archived,
     current_state |-> IF "current_state" \in cols THEN new.current_state ELSE old.current_state,
     states |-> IF "states" \in cols THEN new.states ELSE old.states]

\* The statements the flushes of a service function send, from the tables it
\* loaded (db0) and the objects it left in the session (db1): the INSERT or the
\* DELETE of the task row or the UPDATE of its changed columns, and the INSERTs
\* of the events and comments it added.
WriteSet(db0, db1, task_id) ==
    LET was == task_id \in DOMAIN db0.tasks
        is == task_id \in DOMAIN db1.tasks
        upd == IF was /\ is THEN Changed(db0.tasks[task_id], db1.tasks[task_id]) ELSE {}
    IN  [task_id |-> task_id,
         insert |-> ~was /\ is,
         delete |-> was /\ ~is,
         upd |-> upd,
         row |-> IF ~is THEN BlankRow
                 ELSE IF was THEN Merge(BlankRow, db1.tasks[task_id], upd)
                 ELSE db1.tasks[task_id],
         events |-> IF is THEN SubSeq(db1.events, Len(db0.events) + 1, Len(db1.events)) ELSE << >>,
         comments |-> IF is THEN SubSeq(db1.comments, Len(db0.comments) + 1, Len(db1.comments))
                      ELSE << >>]

\* The write set inserts rows that refer to the task row.
Refs(w) == w.events # << >> \/ w.comments # << >>

\* The task row the write set is about is not in the store: another session
\* deleted it and committed after this session loaded it.
RowGone(w) == ~w.insert /\ w.task_id \notin DOMAIN tasks

\* The UPDATE matches no row: the flush raises StaleDataError.
Stale(w) == RowGone(w) /\ w.upd # {}

\* Mutant of ForeignKeyViolated: the child tables have no foreign key.
ForeignKeyViolated_Unchecked(w) == FALSE

\* ForeignKey("tasks.id"): the INSERT of an event or comment of a task that is
\* not in the store is rejected (IntegrityError).
ForeignKeyViolated(w) == RowGone(w) /\ Refs(w)

\* Row locks: the statements of w wait for the session that flushed v to end.
\* DELETE of the task row conflicts with every statement on the row and with the
\* INSERT of a row that refers to it; two UPDATEs of the row conflict; an UPDATE
\* and the INSERT of a referring row do not.
Conflict(w, v) ==
    /\ w.task_id = v.task_id
    /\ \/ w.delete /\ (v.delete \/ v.upd # {} \/ Refs(v))
       \/ v.delete /\ (w.delete \/ w.upd # {} \/ Refs(w))
       \/ w.upd # {} /\ v.upd # {}

\* The flush of session s waits for a lock.
Blocked(s) ==
    \E o \in Sessions \ {s} : sess[o].pc = "flushed" /\ Conflict(sess[s].w, sess[o].w)

\* The statements session s has sent so far.  create_task flushes twice: the
\* task row, then the Create event.
Sent(s) ==
    IF sess[s].pc = "flushed" THEN sess[s].w
    ELSE IF sess[s].pc = "task_flushed" THEN [sess[s].w EXCEPT !.events = << >>]
    ELSE [sess[s].w EXCEPT !.insert = FALSE, !.delete = FALSE, !.upd = {},
                           !.events = << >>, !.comments = << >>]

\* The store after the statements w: ON DELETE CASCADE takes the events and
\* comments of a deleted row with it.
Apply(db, w) ==
    LET present == w.task_id \in DOMAIN db.tasks IN
    [tasks |-> IF w.insert THEN (w.task_id :> w.row) @@ db.tasks
               ELSE IF ~present THEN db.tasks
               ELSE IF w.delete THEN delete_task(db, w.task_id).db.tasks
               ELSE [db.tasks EXCEPT ![w.task_id] = Merge(@, w.row, w.upd)],
     events |-> IF w.delete /\ present THEN delete_task(db, w.task_id).db.events
                ELSE db.events \o w.events,
     comments |-> IF w.delete /\ present THEN delete_task(db, w.task_id).db.comments
                  ELSE db.comments \o w.comments]

\* get_db, `await session.commit()`: what the session sent becomes the store.
commit(s) ==
    LET db1 == Apply(Db, Sent(s)) IN
    /\ tasks' = db1.tasks
    /\ events' = db1.events
    /\ comments' = db1.comments

\* Mutant of rollback: what was flushed before the exception is committed.
rollback_CommitSent(s) == commit(s)

\* get_db, `await session.rollback()`: nothing the session sent reaches the store.
rollback(s) == UNCHANGED <<tasks, events, comments>>

\* Rows of task_events and task_comments the sessions in flight are about to insert.
RECURSIVE PendingRows(_)
PendingRows(S) ==
    IF S = {} THEN 0
    ELSE LET s == CHOOSE x \in S : TRUE
         IN  (IF sess[s].pc = "idle" THEN 0
              ELSE Len(sess[s].w.events) + Len(sess[s].w.comments)) + PendingRows(S \ {s})

\* Request bodies of POST /tasks and PUT /tasks/{task_id} in SpecTx.
TxCreates ==
    {p \in TaskCreate : p.priority = 0 /\ p.states \in {NoneList, Some(<<"Done", "done">>)}}
TxUpdates ==
    {p \in TaskUpdate : p.priority = 1 /\ p.states = Some(<<"done", "Done">>)}

\* Session s runs the service function of request req on the store it reads; r
\* is what the function returns or raises before its first flush.  An
\* HTTPException ends the request at once; otherwise the statements wait for the
\* flush.
Begin(s, req, r) ==
    /\ sess[s].pc = "idle"
    /\ Len(r.db.events) + Len(r.db.comments) + PendingRows(Sessions) <= MaxEvents
    /\ IF r.exc # NoExc
       THEN /\ last' = [req EXCEPT !.exc = r.exc]
            /\ UNCHANGED sess
       ELSE /\ sess' = [sess EXCEPT ![s] = [pc |-> "loaded", req |-> req,
                                            w |-> WriteSet(Db, r.db, req.task_id)]]
            /\ UNCHANGED last
    /\ UNCHANGED <<tasks, events, comments, nextId, now>>

\* POST /tasks.  The id of the new row is the next one no session has taken.
TxCreateTask(s) ==
    \E payload \in TxCreates :
        /\ nextId + 1 \in TaskIds
        /\ \A o \in Sessions : IF sess[o].pc = "idle" THEN TRUE ELSE ~sess[o].w.insert
        /\ Begin(s, Request("create", nextId + 1, payload, NoneStr, NoExc),
                 create_task(Db, nextId + 1, payload, now, now))

\* PUT /tasks/{task_id}
TxUpdateTask(s) ==
    \E task_id \in TaskIds, payload \in TxUpdates :
        Begin(s, Request("update", task_id, payload, NoneStr, NoExc),
              update_task(Db, task_id, payload))

\* POST /tasks/{task_id}/status
TxUpdateTaskStatus(s) ==
    \E task_id \in TaskIds, status \in Statuses :
        Begin(s, Request("status", task_id, NoPayload, status, NoExc),
              update_task_status(Db, task_id, status, now, now))

\* POST /tasks/{task_id}/archive
TxArchiveTask(s) ==
    \E task_id \in TaskIds :
        Begin(s, Request("archive", task_id, NoPayload, NoneStr, NoExc),
              archive_task(Db, task_id, now))

\* POST /tasks/{task_id}/unarchive
TxUnarchiveTask(s) ==
    \E task_id \in TaskIds :
        Begin(s, Request("unarchive", task_id, NoPayload, NoneStr, NoExc),
              unarchive_task(Db, task_id, now))

\* DELETE /tasks/{task_id}
TxDeleteTask(s) ==
    \E task_id \in TaskIds :
        Begin(s, Request("delete", task_id, NoPayload, NoneStr, NoExc),
              delete_task(Db, task_id))

\* POST /tasks/{task_id}/comments
TxAddComment(s) ==
    \E task_id \in TaskIds, content \in CommentContents :
        Begin(s, Request("comment", task_id, TaskCommentCreate(content), NoneStr, NoExc),
              add_task_comment(Db, task_id, content, now))

\* The request of session s ends with exception exc: get_db rolls back.
Fail(s, exc) ==
    /\ rollback(s)
    /\ last' = [sess[s].req EXCEPT !.exc = exc]
    /\ sess' = [sess EXCEPT ![s] = Idle]
    /\ UNCHANGED <<nextId, now>>

\* create_task, first flush: the INSERT of the task row.
TxFlushTask(s) ==
    /\ sess[s].pc = "loaded"
    /\ sess[s].w.insert
    /\ sess' = [sess EXCEPT ![s].pc = "task_flushed"]
    /\ UNCHANGED <<tasks, events, comments, nextId, now, last>>

\* `await db.flush()`: the statements of the request are sent, once no other
\* session holds a lock they need.
TxFlush(s) ==
    /\ sess[s].pc # "idle"
    /\ sess[s].pc = (IF sess[s].w.insert THEN "task_flushed" ELSE "loaded")
    /\ ~Stale(sess[s].w)
    /\ ~ForeignKeyViolated(sess[s].w)
    /\ ~Blocked(s)
    /\ sess' = [sess EXCEPT ![s].pc = "flushed"]
    /\ UNCHANGED <<tasks, events, comments, nextId, now, last>>

\* `await db.flush()` raises: the row the statements are about is gone.
TxFlushFails(s) ==
    /\ sess[s].pc = "loaded"
    /\ Stale(sess[s].w) \/ ForeignKeyViolated(sess[s].w)
    /\ Fail(s, PersistenceError)

\* The service function returned: get_db commits.
TxCommit(s) ==
    /\ sess[s].pc = "flushed"
    /\ commit(s)
    /\ nextId' = IF sess[s].w.insert THEN nextId + 1 ELSE nextId
    /\ last' = sess[s].req
    /\ sess' = [sess EXCEPT ![s] = Idle]
    /\ UNCHANGED now

\* The request is aborted before its commit (the connection fails, the request
\* times out): get_db rolls back.
TxAbort(s) ==
    /\ sess[s].pc # "idle"
    /\ Fail(s, PersistenceError)

NextTx ==
    \E s \in Sessions :
        \/ TxCreateTask(s)
        \/ TxUpdateTask(s)
        \/ TxUpdateTaskStatus(s)
        \/ TxArchiveTask(s)
        \/ TxUnarchiveTask(s)
        \/ TxDeleteTask(s)
        \/ TxAddComment(s)
        \/ TxFlushTask(s)
        \/ TxFlush(s)
        \/ TxFlushFails(s)
        \/ TxCommit(s)
        \/ TxAbort(s)

SpecTx == Init /\ [][NextTx]_vars

\* The sessions when clients only create tasks and change their status: no row
\* is ever deleted, so no flush fails.
NextRace ==
    \E s \in Sessions :
        \/ TxCreateTask(s)
        \/ TxUpdateTaskStatus(s)
        \/ TxFlushTask(s)
        \/ TxFlush(s)
        \/ TxCommit(s)
        \/ TxAbort(s)

SpecRace == Init /\ [][NextRace]_vars

\* ------------------------------------------------------------- kanban migration
\* Mutant of kanban_status: a Stateful task is in progress, done or not.
kanban_status_ByType(row) ==
    CASE row.task_type = TODO /\ row.done = FALSE -> "todo"
      [] row.task_type = TODO /\ row.done = TRUE -> "done"
      [] row.task_type = STATEFUL -> "in-progress"
      [] OTHER -> "backlog"

\* upgrade: the CASE that fills tasks.status from task_type and done.  The
\* columns hold the values of the enumerations ('Todo', 'Stateful'), as the SQL
\* of the migration and of the report take them to.
kanban_status(row) ==
    CASE row.task_type = TODO /\ row.done = FALSE -> "todo"
      [] row.task_type = TODO /\ row.done = TRUE -> "done"
      [] row.task_type = STATEFUL /\ row.done = FALSE -> "in-progress"
      [] row.task_type = STATEFUL /\ row.done = TRUE -> "done"
      [] OTHER -> "backlog"

\* upgrade(): the tasks table afterwards.  status is added and filled, then
\* task_type, states, done and current_state are dropped.
upgrade(table) ==
    [id \in DOMAIN table |->
        [priority |-> table[id].priority, content |-> table[id].content,
         group |-> table[id].group, create_at |-> table[id].create_at,
         archived |-> table[id].archived, status |-> kanban_status(table[id])]]

\* downgrade(): the tasks table afterwards.  The four columns come back
\* (current_state and states NULL), done and task_type are filled from status,
\* then status is dropped.
downgrade(table) ==
    [id \in DOMAIN table |->
        [priority |-> table[id].priority, content |-> table[id].content,
         group |-> table[id].group, create_at |-> table[id].create_at,
         archived |-> table[id].archived,
         current_state |-> NoneStr,
         done |-> IF table[id].status = "done" THEN TRUE ELSE FALSE,
         states |-> NoneList,
         task_type |-> TODO]]

\* What `last` records of a migration: the tasks table before the upgrade.
Migration(op, table) ==
    [op |-> op, task_id |-> 0, payload |-> NoPayload, status |-> NoneStr, exc |-> NoExc,
     body |-> table]

\* The database is at revision e21b3ff6c788: the last thing that ran is the upgrade.
Upgraded == last.op = "upgrade"

\* alembic upgrade e21b3ff6c788
Upgrade ==
    /\ ~Upgraded
    /\ tasks' = upgrade(tasks)
    /\ last' = Migration("upgrade", tasks)
    /\ UNCHANGED <<events, comments, nextId, now, sess>>

\* alembic downgrade -1
Downgrade ==
    /\ Upgraded
    /\ tasks' = downgrade(tasks)
    /\ last' = Migration("downgrade", last.body)
    /\ UNCHANGED <<events, comments, nextId, now, sess>>

\* The service of this revision of the code runs on the schema before the
\* upgrade: create_task, update_task_status and archive_task requests.
NextMigrate ==
    \/ ~Upgraded /\ \E payload \in TxCreates : CreateTaskReq(payload, now, now)
    \/ /\ ~Upgraded
       /\ \E task_id \in TaskIds, status \in Statuses :
              UpdateTaskStatusReq(task_id, status, now, now)
    \/ ~Upgraded /\ \E task_id \in TaskIds : ArchiveTaskReq(task_id, now)
    \/ Upgrade
    \/ Downgrade

SpecMigrate == Init /\ [][NextMigrate]_vars

\* ------------------------------------------------------------- two tasks
\* The ids of two tasks, and the bodies the requests on them carry.
PairIds == {1, 2}

\* The requests of a session on one of the two tasks (create, update, status,
\* archive, unarchive, delete, comment), then the steps of its transaction.
NextPair ==
    \E s \in Sessions :
        \/ LET payload == [priority |-> 0, content |-> "x", group |-> NoneStr,
                           task_type |-> TODO, states |-> NoneList]
           IN  /\ nextId + 1 \in PairIds
               /\ \A o \in Sessions : IF sess[o].pc = "idle" THEN TRUE ELSE ~sess[o].w.insert
               /\ Begin(s, Request("create", nextId + 1, payload, NoneStr, NoExc),
                        create_task(Db, nextId + 1, payload, now, now))
        \/ LET payload == [priority |-> 1, content |-> "x", group |-> NoneStr,
                           task_type |-> TODO, states |-> Some(<<"done", "Done">>)]
           IN  \E task_id \in PairIds :
                   Begin(s, Request("update", task_id, payload, NoneStr, NoExc),
                         update_task(Db, task_id, payload))
        \/ \E task_id \in PairIds :
               Begin(s, Request("status", task_id, NoPayload, "Done", NoExc),
                     update_task_status(Db, task_id, "Done", now, now))
        \/ \E task_id \in PairIds :
               Begin(s, Request("archive", task_id, NoPayload, NoneStr, NoExc),
                     archive_task(Db, task_id, now))
        \/ \E task_id \in PairIds :
               Begin(s, Request("unarchive", task_id, NoPayload, NoneStr, NoExc),
                     unarchive_task(Db, task_id, now))
        \/ \E task_id \in PairIds :
               Begin(s, Request("delete", task_id, NoPayload, NoneStr, NoExc),
                     delete_task(Db, task_id))
        \/ \E task_id \in PairIds, content \in CommentContents :
               Begin(s, Request("comment", task_id, TaskCommentCreate(content), NoneStr, NoExc),
                     add_task_comment(Db, task_id, content, now))
        \/ TxFlushTask(s)
        \/ TxFlush(s)
        \/ TxFlushFails(s)
        \/ TxCommit(s)
        \/ TxAbort(s)

SpecPair == Init /\ [][NextPair]_vars

\* ------------------------------------------------------------- properties
\* The request of a step: the one `last` records after it.
Req == last'

\* The request of the step named an existing task.
OnTask(op) == Req.op = op /\ Req.task_id \in DOMAIN tasks

\* The row of the task the step's request names, before and after the step.
Before == tasks[Req.task_id]
After == tasks'[Req.task_id]

\* The step added exactly the rows `added` to the end of task_events.
Appended(added) == events' = events \o added

\* The events of one task, in the order they were recorded.
EventsOf(task_id) == SelectSeq(events, LAMBDA e : e.task_id = task_id)

\* The kinds of the events of one task, in the order they were recorded.
KindsOf(task_id) == [i \in 1..Len(EventsOf(task_id)) |-> EventsOf(task_id)[i].event_type]

\* The entries of a list, as a set.
Entries(l) == {l[i] : i \in 1..Len(l)}

\* 1-based position of the entry a target matches: the first entry equal to it.
MatchedPos(l, x) == CHOOSE i \in 1..Len(l) : l[i] = x /\ \A j \in 1..(i - 1) : l[j] # x

\* C1: create_task with task_type = Stateful and a states list of length >= 2
\* succeeds and yields a new task whose current_state is states[0], whose done
\* flag is false and whose archived flag is false.
C1_CreateStateful ==
    [][(Req.op = "create" /\ Req.payload.task_type = STATEFUL
            /\ Len(OrEmpty(Req.payload.states)) >= 2)
        => /\ Req.exc = NoExc
           /\ Req.task_id \notin DOMAIN tasks
           /\ Req.task_id \in DOMAIN tasks'
           /\ After.current_state = Req.payload.states.list[1]
           /\ After.done = FALSE
           /\ After.archived = FALSE]_vars

\* A Stateful task was just created from a list whose first and last entries differ.
C1_Witness ==
    /\ last.op = "create" /\ last.exc = NoExc
    /\ last.payload.task_type = STATEFUL
    /\ last.payload.states = Some(<<"Done", "done">>)
    /\ last.task_id \in DOMAIN tasks
    /\ tasks[last.task_id].current_state = "Done"

\* C2: create_task with task_type = Stateful and fewer than 2 states (None, empty
\* or one entry) raises InvalidStatesError (HTTP 400) and the store holds no new
\* task, event or comment.
C2_CreateStatefulRejected ==
    [][(Req.op = "create" /\ Req.payload.task_type = STATEFUL
            /\ Len(OrEmpty(Req.payload.states)) < 2)
        => /\ Req.exc = InvalidStatesError
           /\ StatusCode(Req.exc) = 400
           /\ tasks' = tasks
           /\ events' = events
           /\ comments' = comments]_vars

\* A Stateful create with a single state was just rejected.
C2_Witness ==
    /\ last.op = "create" /\ last.exc = InvalidStatesError
    /\ last.payload.task_type = STATEFUL
    /\ ~last.payload.states.isNone
    /\ Len(last.payload.states.list) = 1
    /\ tasks = << >> /\ events = << >>

\* C3 (as claimed): every task that carries a custom states list has at least two
\* distinct entries in it and its current_state is one of them.
C3_StatesInvariant ==
    \A id \in DOMAIN tasks :
        Truthy(tasks[id].states)
        => /\ Cardinality(Entries(tasks[id].states.list)) >= 2
           /\ tasks[id].current_state \in Entries(tasks[id].states.list)

\* C4 (as claimed): update_task_status on a Stateful task with a target equal to
\* the last element of its states list sets done = true and appends exactly two
\* events, UpdateState (state = target) then Done, with non-decreasing timestamps.
C4_TerminalTransition ==
    [][(OnTask("status") /\ Before.task_type = STATEFUL
            /\ Truthy(Before.states)
            /\ Req.status = Before.states.list[Len(Before.states.list)])
        => /\ Req.exc = NoExc
           /\ After.done = TRUE
           /\ \E t1, t2 \in Times :
                /\ t1 <= t2
                /\ Appended(<<TaskEvent(Req.task_id, UPDATE_STATE, t1, Req.status),
                              TaskEvent(Req.task_id, DONE, t2, NoneStr)>>)]_vars

\* C5: on a Stateful task, a target that matches an entry of the states list
\* becomes the current_state, and done is true exactly when the matched entry
\* (the first entry equal to the target) stands at the last position of the list.
C5_DoneIffLastPosition ==
    [][(OnTask("status") /\ Before.task_type = STATEFUL
            /\ Req.status \in Entries(OrEmpty(Before.states)))
        => /\ Req.exc = NoExc
           /\ After.current_state = Req.status
           /\ After.done = (MatchedPos(Before.states.list, Req.status) = Len(Before.states.list))]_vars

\* A Stateful task whose list repeats a name was just moved to that name: the
\* name is also the name of the last entry, and the task is not done.
C5_Witness ==
    /\ last.op = "status" /\ last.exc = NoExc
    /\ last.task_id \in DOMAIN tasks
    /\ tasks[last.task_id].task_type = STATEFUL
    /\ tasks[last.task_id].states = Some(<<"Done", "Done">>)
    /\ tasks[last.task_id].current_state = "Done"
    /\ tasks[last.task_id].done = FALSE
    /\ KindsOf(last.task_id) = <<CREATE, UPDATE_STATE>>

\* C6: update_task_status on a Stateful task with a target that is no entry of
\* its states list (exact match) raises InvalidStatesError (HTTP 400), leaves the
\* task unchanged and appends no event.
C6_InvalidTarget ==
    [][(OnTask("status") /\ Before.task_type = STATEFUL
            /\ Req.status \notin Entries(OrEmpty(Before.states)))
        => /\ Req.exc = InvalidStatesError
           /\ StatusCode(Req.exc) = 400
           /\ tasks' = tasks
           /\ events' = events
           /\ Len(events') = Len(events)]_vars

\* A target that differs from an entry only in case was just rejected.
C6_Witness ==
    /\ last.op = "status" /\ last.exc = InvalidStatesError
    /\ last.status = "done"
    /\ last.task_id \in DOMAIN tasks
    /\ tasks[last.task_id].task_type = STATEFUL
    /\ Entries(tasks[last.task_id].states.list) = {"Done"}
    /\ KindsOf(last.task_id) = <<CREATE>>

\* C7: update_task_status on a Todo task with "Done" sets done = true and appends
\* exactly one Done event; with "Open" it sets done = false and appends exactly
\* one Open event; current_state stays unset.
C7_TodoSentinels ==
    [][(OnTask("status") /\ Before.task_type = TODO /\ Req.status \in {"Done", "Open"})
        => /\ Req.exc = NoExc
           /\ After.done = (Req.status = "Done")
           /\ \E t \in Times :
                Appended(<<TaskEvent(Req.task_id,
                                     IF Req.status = "Done" THEN DONE ELSE OPEN, t, NoneStr)>>)
           /\ Before.current_state = NoneStr
           /\ After.current_state = NoneStr]_vars

\* A Todo task was marked done and then open again.
C7_Witness ==
    /\ last.op = "status" /\ last.status = "Open" /\ last.exc = NoExc
    /\ last.task_id \in DOMAIN tasks
    /\ tasks[last.task_id].task_type = TODO
    /\ tasks[last.task_id].done = FALSE
    /\ KindsOf(last.task_id) = <<CREATE, DONE, OPEN>>

\* C8 (as claimed): on a Todo task a status value other than "Done" and "Open" is
\* not accepted as a transition: it changes neither the done flag nor the event log.
C8_TodoOnlySentinels ==
    [][(OnTask("status") /\ Before.task_type = TODO /\ Req.status \notin {"Done", "Open"})
        => /\ After.done = Before.done
           /\ events' = events]_vars

\* C9: archive_task on an existing task succeeds, sets archived = true and
\* appends exactly one Archived event, also when the task is already archived.
C9_ArchiveAlwaysEmits ==
    [][OnTask("archive")
        => /\ Req.exc = NoExc
           /\ After.archived = TRUE
           /\ After = [Before EXCEPT !.archived = TRUE]
           /\ \E t \in Times : Appended(<<TaskEvent(Req.task_id, ARCHIVED, t, NoneStr)>>)]_vars

\* An archived task was just archived again: two calls, two Archived events.
C9_Witness ==
    /\ last.op = "archive" /\ last.exc = NoExc
    /\ last.task_id \in DOMAIN tasks
    /\ tasks[last.task_id].archived = TRUE
    /\ KindsOf(last.task_id) = <<CREATE, ARCHIVED, ARCHIVED>>

\* C10: unarchive_task on an existing task sets archived = false and appends
\* exactly one Unarchived event, whether or not the task was archived.
C10_UnarchiveAlwaysEmits ==
    [][OnTask("unarchive")
        => /\ Req.exc = NoExc
           /\ After.archived = FALSE
           /\ After = [Before EXCEPT !.archived = FALSE]
           /\ \E t \in Times : Appended(<<TaskEvent(Req.task_id, UNARCHIVED, t, NoneStr)>>)]_vars

\* A task was archived and then unarchived.
C10_Witness ==
    /\ last.op = "unarchive" /\ last.exc = NoExc
    /\ last.task_id \in DOMAIN tasks
    /\ tasks[last.task_id].archived = FALSE
    /\ KindsOf(last.task_id) = <<CREATE, ARCHIVED, UNARCHIVED>>

\* The ids handed out to tasks that exist no longer: the deleted tasks.
Deleted == (1..nextId) \ DOMAIN tasks

\* C11: after delete_task(id) commits the task is absent and no event and no
\* comment remains under that id; the id never comes back, and a later get of it
\* raises ResourceNotFoundError (HTTP 404).
C11_DeleteRemovesAll ==
    [][/\ OnTask("delete")
            => /\ Req.exc = NoExc
               /\ Req.task_id \notin DOMAIN tasks'
               /\ \A i \in 1..Len(events') : events'[i].task_id # Req.task_id
               /\ \A i \in 1..Len(comments') : comments'[i].task_id # Req.task_id
       /\ \A id \in Deleted : id \notin DOMAIN tasks'
       /\ (Req.op = "get" /\ Req.task_id \in Deleted)
            => /\ Req.exc = ResourceNotFoundError
               /\ StatusCode(Req.exc) = 404]_vars

\* A task was created and deleted, and the get of its id that followed failed.
C11_Witness ==
    /\ last.op = "get" /\ last.exc = ResourceNotFoundError
    /\ last.task_id \in Deleted
    /\ events = << >> /\ comments = << >>

\* C12: in every committed state, also one reached by a delete that runs
\* concurrently with an archive, a status change or a comment on the same task,
\* every stored event and every stored comment refers to a task that exists.
C12_NoOrphans ==
    /\ \A i \in 1..Len(events) : events[i].task_id \in DOMAIN tasks
    /\ \A i \in 1..Len(comments) : comments[i].task_id \in DOMAIN tasks

\* A comment request loaded the task, another session deleted the task and
\* committed, and the comment request then ended with a rollback.
C12_Witness ==
    /\ last.op = "comment" /\ last.exc = PersistenceError
    /\ last.task_id \in Deleted
    /\ comments = << >>

\* The events of one task in a task_events table.
EventsIn(evs, task_id) == SelectSeq(evs, LAMBDA e : e.task_id = task_id)

\* l is a prefix of m.
IsPrefix(l, m) == Len(l) <= Len(m) /\ SubSeq(m, 1, Len(l)) = l

\* C13: the event log is append-only.  No request other than the delete of the
\* owning task changes or removes a recorded event: after a create, update,
\* change-status, archive, unarchive or comment the table keeps its rows in
\* place, and each task's previous event sequence is a prefix of its new one.
C13_AppendOnly ==
    [][/\ Req.op \in {"create", "update", "status", "archive", "unarchive", "comment"}
            => IsPrefix(events, events')
       /\ \A id \in DOMAIN tasks :
            ~(Req.op = "delete" /\ Req.task_id = id)
                => IsPrefix(EventsIn(events, id), EventsIn(events', id))]_vars

\* A task was archived twice and both Archived events are in its log, after
\* the Create event.
C13_Witness ==
    /\ last.op = "archive" /\ last.exc = NoExc
    /\ last.task_id \in DOMAIN tasks
    /\ Len(events) = 3
    /\ events[2].event_type = ARCHIVED
    /\ events[3].event_type = ARCHIVED
    /\ events[2].datetime <= events[3].datetime

\* C14: create_task records exactly one Create event together with the new task
\* in the same transaction: in every committed state each existing task has
\* exactly one Create event, and it is the first event of the task's log.
C14_OneCreateFirst ==
    \A id \in DOMAIN tasks :
        /\ Len(KindsOf(id)) >= 1
        /\ KindsOf(id)[1] = CREATE
        /\ \A i \in 2..Len(KindsOf(id)) : KindsOf(id)[i] # CREATE

\* A task whose log holds its Create event and two later events.
C14_Witness ==
    \E id \in DOMAIN tasks :
        /\ Len(KindsOf(id)) = 3
        /\ KindsOf(id)[1] = CREATE
        /\ KindsOf(id)[3] \in {DONE, ARCHIVED}

\* The events a step added to the log of one task.
AddedFor(task_id) ==
    SubSeq(EventsIn(events', task_id), Len(EventsIn(events, task_id)) + 1,
           Len(EventsIn(events', task_id)))

\* The kinds of the events a step added to the log of one task.
AddedKinds(task_id) == {AddedFor(task_id)[i].event_type : i \in 1..Len(AddedFor(task_id))}

\* C15 (as claimed): every mutating operation is atomic.  A request that fails
\* changes neither the tasks nor the event log; a step that records a status or
\* archive event leaves the task with the mutation the event stands for, and a
\* step that changes the done or the archived flag records the event of it.
C15_Atomic ==
    [][/\ Req.exc # NoExc => UNCHANGED <<tasks, events, comments>>
       /\ \A id \in DOMAIN tasks \cap DOMAIN tasks' :
            /\ ARCHIVED \in AddedKinds(id) => tasks'[id].archived = TRUE
            /\ UNARCHIVED \in AddedKinds(id) => tasks'[id].archived = FALSE
            /\ DONE \in AddedKinds(id) => tasks'[id].done = TRUE
            /\ OPEN \in AddedKinds(id) => tasks'[id].done = FALSE
            /\ UPDATE_STATE \in AddedKinds(id)
                => /\ \E i \in 1..Len(AddedFor(id)) :
                        /\ AddedFor(id)[i].event_type = UPDATE_STATE
                        /\ tasks'[id].current_state = AddedFor(id)[i].state
                   /\ tasks'[id].done = (DONE \in AddedKinds(id))
            /\ tasks'[id].archived # tasks[id].archived
                => AddedKinds(id) \cap {ARCHIVED, UNARCHIVED} # {}
            /\ tasks'[id].done # tasks[id].done
                => AddedKinds(id) \cap {DONE, OPEN, UPDATE_STATE} # {}]_vars

\* The operations that take the id of a task in the path.
ByIdOps == {"get", "update", "status", "archive", "unarchive", "delete", "comment"}

\* C16: get, update, change-status, archive, unarchive, delete and add-comment
\* with an id that names no existing task raise ResourceNotFoundError (HTTP 404)
\* and leave tasks, events and comments unchanged.
C16_NotFound ==
    [][(Req.op \in ByIdOps /\ Req.task_id \notin DOMAIN tasks)
        => /\ Req.exc = ResourceNotFoundError
           /\ StatusCode(Req.exc) = 404
           /\ tasks' = tasks
           /\ events' = events
           /\ comments' = comments]_vars

\* A comment on the id of a deleted task was just rejected.
C16_Witness ==
    /\ last.op = "comment" /\ last.exc = ResourceNotFoundError
    /\ last.task_id \in Deleted
    /\ comments = << >>

\* C17: update_task emits no event: the event log is the same before and after
\* every update_task call, on an existing task or not.
C17_UpdateNoEvent ==
    [][Req.op = "update" => events' = events]_vars

\* An update with the list <<"done">> just succeeded and left the task in the
\* state "done": the log of the task holds its Create event only.
C17_Witness ==
    /\ last.op = "update" /\ last.exc = NoExc
    /\ last.payload.states = Some(<<"done">>)
    /\ last.task_id \in DOMAIN tasks
    /\ tasks[last.task_id].current_state = "done"
    /\ KindsOf(last.task_id) = <<CREATE>>
    /\ events = EventsOf(last.task_id)

\* C18 (as claimed): update_task with a non-empty new states list keeps the old
\* current_state when that name is in the new list, and otherwise sets
\* current_state to the first element of the new list.
C18_CurrentStateRederived ==
    [][(OnTask("update") /\ Len(OrEmpty(Req.payload.states)) >= 1)
        => After.current_state =
            IF Before.current_state \in Entries(Req.payload.states.list)
            THEN Before.current_state
            ELSE Req.payload.states.list[1]]_vars

\* C19: update_task re-derives the workflow kind from the new list alone: the
\* task is Stateful when the list is non-empty, and Todo with current_state unset
\* when the list is absent or empty, whatever its kind was before.
C19_KindRederived ==
    [][OnTask("update")
        => /\ Req.exc = NoExc
           /\ Len(OrEmpty(Req.payload.states)) >= 1 => After.task_type = STATEFUL
           /\ Len(OrEmpty(Req.payload.states)) = 0
                => After.task_type = TODO /\ After.current_state = NoneStr]_vars

\* An update with an empty list just succeeded on a task that has been Stateful
\* and reached its terminal state (its log holds UpdateState and Done): the task
\* is a Todo task with no current state.
C19_Witness ==
    /\ last.op = "update" /\ last.exc = NoExc
    /\ last.payload.states = Some(<< >>)
    /\ last.task_id \in DOMAIN tasks
    /\ tasks[last.task_id].task_type = TODO
    /\ tasks[last.task_id].current_state = NoneStr
    /\ tasks[last.task_id].done = TRUE
    /\ KindsOf(last.task_id) = <<CREATE, UPDATE_STATE, DONE>>

\* C20: update_task_status on a Stateful task with a target equal to its
\* current state is legal: it succeeds and appends the events again, one
\* UpdateState and, when the matched entry is the last of the list, one Done.
C20_ReselectCurrent ==
    [][(OnTask("status") /\ Before.task_type = STATEFUL
            /\ Req.status = Before.current_state)
        => /\ Req.exc = NoExc
           /\ After.current_state = Before.current_state
           /\ \E t1, t2 \in Times :
                Appended(StatefulEvents(Req.task_id, Req.status,
                            MatchedPos(Before.states.list, Req.status) = Len(Before.states.list),
                            t1, t2))
           /\ Len(events') > Len(events)]_vars

\* A Stateful task whose list is the single state "Done" was moved to "Done":
\* it was in that state already, and the log gained UpdateState and Done.
C20_Witness ==
    /\ last.op = "status" /\ last.status = "Done" /\ last.exc = NoExc
    /\ last.task_id \in DOMAIN tasks
    /\ tasks[last.task_id].task_type = STATEFUL
    /\ tasks[last.task_id].states = Some(<<"Done">>)
    /\ tasks[last.task_id].done = TRUE
    /\ KindsOf(last.task_id) = <<CREATE, UPDATE_STATE, DONE>>

\* C21: update_task_status on a Stateful task with a target that is a
\* non-terminal entry of its states list (it matches an entry that is not at the
\* last position) sets done = false and appends exactly one event, of kind
\* UpdateState with state = target.
C21_NonTerminalTransition ==
    [][(OnTask("status") /\ Before.task_type = STATEFUL
            /\ Req.status \in Entries(OrEmpty(Before.states))
            /\ MatchedPos(Before.states.list, Req.status) # Len(Before.states.list))
        => /\ Req.exc = NoExc
           /\ After.current_state = Req.status
           /\ After.done = FALSE
           /\ \E t \in Times : Appended(<<TaskEvent(Req.task_id, UPDATE_STATE, t, Req.status)>>)]_vars

\* A Stateful task whose log already held a Done event was moved to the first
\* entry "Done" of its list <<"Done", "done">>: it is not done, and the log
\* gained one UpdateState event that carries "Done".
C21_Witness ==
    /\ last.op = "status" /\ last.status = "Done" /\ last.exc = NoExc
    /\ last.task_id \in DOMAIN tasks
    /\ tasks[last.task_id].states = Some(<<"Done", "done">>)
    /\ tasks[last.task_id].current_state = "Done"
    /\ tasks[last.task_id].done = FALSE
    /\ Len(events) = 3
    /\ events[3] = TaskEvent(last.task_id, UPDATE_STATE, events[3].datetime, "Done")
    /\ events[2].event_type = DONE

\* C22: add_task_comment on an existing task adds exactly one comment, with the
\* given content: every detail view of the task afterwards is a view of before
\* with the new comment put in, and lists the comments oldest first (create_at
\* never decreases along the list).
C22_CommentVisible ==
    [][(OnTask("comment") /\ Req.exc = NoExc)
        => \A v \in TaskDetail([tasks |-> tasks', events |-> events', comments |-> comments'],
                               Req.task_id) :
             /\ \E k \in 1..Len(v.comments) :
                    /\ v.comments[k] = TaskComment(Req.task_id, now', Req.payload.content)
                    /\ SubSeq(v.comments, 1, k - 1) \o SubSeq(v.comments, k + 1, Len(v.comments))
                           \in Task_comments(Db, Req.task_id)
             /\ \A i, j \in 1..Len(v.comments) :
                    i < j => v.comments[i].create_at <= v.comments[j].create_at]_vars

\* A task was commented at instant 39 and again at instant 40: its detail view
\* lists the comment of instant 39 before the one of instant 40.
C22_Witness ==
    /\ last.op = "comment" /\ last.exc = NoExc
    /\ last.task_id \in DOMAIN tasks
    /\ \E v \in TaskDetail(Db, last.task_id) :
          /\ Len(v.comments) = 2
          /\ v.comments[1].create_at = 39
          /\ v.comments[2].create_at = 40

\* The events of one kind on record that the filter of a report taken now matches.
EventsInWindow(kind) ==
    Cardinality({i \in 1..Len(events) :
                    /\ events[i].event_type = kind
                    /\ date_filter(last.status, events[i].datetime, now)})

\* C23: get_report returns, for the window of the period, the number of Create,
\* Done, Archived and UpdateState events inside it, and as comments_count the
\* number of comments added inside it.
C23_ReportCounts ==
    (last.op = "report" /\ last.exc = NoExc)
        => /\ last.body.created_count = EventsInWindow(CREATE)
           /\ last.body.done_count = EventsInWindow(DONE)
           /\ last.body.archived_count = EventsInWindow(ARCHIVED)
           /\ last.body.state_changes_count = EventsInWindow(UPDATE_STATE)
           /\ last.body.comments_count =
                  Cardinality({i \in 1..Len(comments) :
                                  date_filter(last.status, comments[i].create_at, now)})

\* C24: get_report never changes the tasks, the events or the comments, and
\* for a period whose window holds no event it returns all five counts zero
\* instead of failing.
C24_ReportReadOnly ==
    [][Req.op = "report"
        => /\ UNCHANGED <<tasks, events, comments, nextId>>
           /\ Req.exc = NoExc
           /\ (\A i \in 1..Len(events) : ~date_filter(Req.status, events[i].datetime, now'))
                  => /\ Req.body.created_count = 0
                     /\ Req.body.done_count = 0
                     /\ Req.body.archived_count = 0
                     /\ Req.body.state_changes_count = 0
                     /\ Req.body.comments_count = 0]_vars

\* A report for the week was taken at instant 760 while the only events on
\* record were older than the window: it was answered with five zeros.
C24_Witness ==
    /\ last.op = "report" /\ last.status = WEEK /\ last.exc = NoExc
    /\ now = 760
    /\ Len(events) > 0
    /\ \A i \in 1..Len(events) : events[i].datetime <= 591
    /\ last.body = ReportResponse(WEEK, <<0, 0, 0, 0, 0>>)

\* The events on record of one kind that are not older than `hours` at instant NOW.
NotOlderThan(kind, hours, NOW) ==
    Cardinality({i \in 1..Len(events) :
                    events[i].event_type = kind /\ NOW - events[i].datetime <= hours})

\* C29: for the periods week and month the window is rolling: the report
\* counts an event exactly when its timestamp is not older than 7 days
\* (week) or 30 days (month) before the moment of the query.
C29_RollingWindow ==
    (last.op = "report" /\ last.exc = NoExc /\ last.status \in {WEEK, MONTH})
        => LET hours == IF last.status = WEEK THEN 7 * 24 ELSE 30 * 24
           IN  /\ last.body.created_count = NotOlderThan(CREATE, hours, now)
               /\ last.body.done_count = NotOlderThan(DONE, hours, now)
               /\ last.body.archived_count = NotOlderThan(ARCHIVED, hours, now)
               /\ last.body.state_changes_count = NotOlderThan(UPDATE_STATE, hours, now)
               /\ last.body.comments_count = NotOlderThan(CREATE_COMMENT, hours, now)

\* A task was created at instant 591 and archived at instant 592; the report
\* for the week taken at instant 760, exactly 7 days after the archival, counts
\* the Archived event and not the Create event.
C29_Witness ==
    /\ last.op = "report" /\ last.status = WEEK /\ last.exc = NoExc
    /\ now = 760
    /\ Len(events) = 2
    /\ events[1].event_type = CREATE /\ events[1].datetime = 591
    /\ events[2].event_type = ARCHIVED /\ events[2].datetime = 592
    /\ last.body.created_count = 0
    /\ last.body.archived_count = 1

\* C25: a request whose bearer token is missing, malformed or different from
\* the configured secret is answered with status 401, whether or not the task
\* it names exists, and changes nothing in the store.
C25_Unauthorized ==
    [][Req.authorization # Some(Bearer \o user_token)
        => /\ StatusCode(Req.exc) = 401
           /\ UNCHANGED <<tasks, events, comments, nextId, sess>>]_vars

\* The step is the commit of a request of some session.
Commits ==
    \E s \in Sessions :
        /\ sess[s].pc = "flushed"
        /\ sess'[s] = Idle
        /\ Req = sess[s].req

\* C26: concurrent status transitions on one task are serialized.  The log
\* receives the events of the requests in the order of their commits, and two
\* transitions with different events do not commute, so the committed result
\* equals a serial run exactly when every commit of a status transition leaves
\* what the transition gives when it runs alone on the state committed before it.
C26_Serialized ==
    [][(Commits /\ OnTask("status"))
        => LET r == update_task_status(Db, Req.task_id, Req.status, now, now)
           IN  /\ After.current_state = r.db.tasks[Req.task_id].current_state
               /\ After.done = r.db.tasks[Req.task_id].done
               /\ events' = r.db.events]_vars

\* C27: a status transition records the prior value: the UpdateState event a
\* transition of a Stateful task appends carries state = the new state and
\* from_state = the state the task had immediately before the transition.
C27_FromState ==
    [][(OnTask("status") /\ Req.exc = NoExc /\ Before.task_type = STATEFUL)
        => \E i \in 1..Len(events') :
             /\ i > Len(events)
             /\ events'[i].event_type = UPDATE_STATE
             /\ events'[i].state = After.current_state
             /\ from_state(events'[i]) = Before.current_state]_vars

C30_NewestFirst ==
    \A id \in DOMAIN tasks :
        \A v \in TaskDetail(Db, id) :
            /\ Len(v.events) = Len(EventsOf(id))
            /\ \A i, j \in 1..Len(v.events) :
                   i < j => v.events[i].datetime >= v.events[j].datetime

\* A task has three events on record, of the instants 39, 592 and 760 in the
\* order they were recorded: its detail view lists them in the reverse order.
C30_Witness ==
    \E id \in DOMAIN tasks :
        /\ Len(EventsOf(id)) = 3
        /\ EventsOf(id)[1].datetime = 39
        /\ EventsOf(id)[2].datetime = 592
        /\ EventsOf(id)[3].datetime = 760
        /\ \E v \in TaskDetail(Db, id) :
              v.events = <<EventsOf(id)[3], EventsOf(id)[2], EventsOf(id)[1]>>

\* The comments of one task among `cms`, in the order they were recorded.
CommentsIn(cms, task_id) == SelectSeq(cms, LAMBDA c : c.task_id = task_id)

\* C31: operations on one task never change another task.  A step of a create,
\* update, change-status, archive, unarchive, delete or add-comment request on
\* task A leaves the row, the events and the comments of every other task B as
\* they were, also when requests on A and B are in flight at the same time.
C31_OtherTasksUnchanged ==
    [][\A b \in DOMAIN tasks :
          b # Req.task_id
            => /\ b \in DOMAIN tasks'
               /\ tasks'[b] = tasks[b]
               /\ EventsIn(events', b) = EventsIn(events, b)
               /\ CommentsIn(comments', b) = CommentsIn(comments, b)]_vars

\* Task 1 was deleted by a request that committed while a request on task 2
\* had flushed and not yet committed; task 2 is still there with its Create event.
C31_Witness ==
    /\ last.op = "delete" /\ last.task_id = 1 /\ last.exc = NoExc
    /\ 1 \notin DOMAIN tasks /\ 2 \in DOMAIN tasks
    /\ EventsIn(events, 2) # << >>
    /\ \E s \in Sessions :
          /\ sess[s].pc = "flushed"
          /\ sess[s].req.task_id = 2

C33_DoneIffTerminal ==
    \A id \in DOMAIN tasks :
        tasks[id].task_type = STATEFUL
            => (tasks[id].done
                  <=> /\ OrEmpty(tasks[id].states) # << >>
                      /\ tasks[id].current_state =
                             OrEmpty(tasks[id].states)[Len(OrEmpty(tasks[id].states))])

\* The UpdateState events of one task, in the order they were recorded.
UpdateStatesOf(task_id) ==
    SelectSeq(events, LAMBDA e : e.task_id = task_id /\ e.event_type = UPDATE_STATE)

\* The UpdateState events of one task among `evs`.
UpdateStatesIn(evs, task_id) ==
    SelectSeq(evs, LAMBDA e : e.task_id = task_id /\ e.event_type = UPDATE_STATE)

StatusEventsOf(task_id) ==
    SelectSeq(events, LAMBDA e : e.task_id = task_id
                                  /\ e.event_type \in {DONE, OPEN, UPDATE_STATE})

\* C35: in every reachable state the done flag of a task agrees with its event
\* log: done is true exactly when the most recent event of the task among the
\* kinds Done, Open and UpdateState is a Done event, and false when the task
\* has no such event.
C35_DoneAgreesWithLog ==
    \A id \in DOMAIN tasks :
        tasks[id].done
          <=> /\ StatusEventsOf(id) # << >>
              /\ StatusEventsOf(id)[Len(StatusEventsOf(id))].event_type = DONE

ArchiveEventsOf(task_id) ==
    SelectSeq(events, LAMBDA e : e.task_id = task_id
                                  /\ e.event_type \in {ARCHIVED, UNARCHIVED})

\* C36: when requests run one after the other, a task's archived flag is true
\* exactly when its log holds an Archived or Unarchived event and the most
\* recent of them is Archived.
C36_ArchivedAgreesWithLog ==
    \A id \in DOMAIN tasks :
        tasks[id].archived
          <=> /\ ArchiveEventsOf(id) # << >>
              /\ ArchiveEventsOf(id)[Len(ArchiveEventsOf(id))].event_type = ARCHIVED

\* A task that was archived and then unarchived: the flag is false although
\* the log holds an Archived event, because an Unarchived one follows it.
C36_Witness ==
    \E id \in DOMAIN tasks :
        /\ ~tasks[id].archived
        /\ Len(ArchiveEventsOf(id)) >= 2
        /\ ArchiveEventsOf(id)[Len(ArchiveEventsOf(id)) - 1].event_type = ARCHIVED
        /\ ArchiveEventsOf(id)[Len(ArchiveEventsOf(id))].event_type = UNARCHIVED

\* C37: a status transition of an existing task changes at most the done flag
\* and current_state of its row, and an archive or unarchive request at most
\* the archived flag; every other column of the row and the task's comments
\* stay as they were (the event log is the only other thing written).
C37_StatusAndArchiveFrame ==
    [][/\ OnTask("status")
          => /\ After = [Before EXCEPT !.done = After.done,
                                       !.current_state = After.current_state]
             /\ comments' = comments
       /\ (OnTask("archive") \/ OnTask("unarchive"))
          => /\ After = [Before EXCEPT !.archived = After.archived]
             /\ comments' = comments]_vars

\* A status transition has moved a Stateful task that an earlier request
\* archived: the archived flag and the states list are still in place.
C37_Witness ==
    /\ last.op = "status"
    /\ last.exc = NoExc
    /\ last.task_id \in DOMAIN tasks
    /\ tasks[last.task_id].archived
    /\ tasks[last.task_id].task_type = STATEFUL
    /\ tasks[last.task_id].current_state = last.status
    /\ \E i \in DOMAIN EventsOf(last.task_id) :
           EventsOf(last.task_id)[i].event_type = ARCHIVED

\* C38: an update of an existing task leaves its done flag and its archived
\* flag as they were, whatever it does to the states list, to current_state
\* and to the kind of the task.
C38_UpdateKeepsFlags ==
    [][OnTask("update")
          => /\ After.done = Before.done
             /\ After.archived = Before.archived]_vars

\* An update has turned a Todo task that is done and archived into a Stateful
\* one (its log holds a Done event and no UpdateState event), and both flags
\* are still set.
C38_Witness ==
    /\ last.op = "update"
    /\ last.exc = NoExc
    /\ last.task_id \in DOMAIN tasks
    /\ tasks[last.task_id].task_type = STATEFUL
    /\ tasks[last.task_id].done
    /\ tasks[last.task_id].archived
    /\ UpdateStatesOf(last.task_id) = << >>

\* C39: a comment added to an existing task leaves task_events and every row
\* of tasks as they were, and the comments_count of the report of every period,
\* taken at any one time, is the same after the comment as before it.
C39_CommentFrame ==
    [][OnTask("comment")
          => /\ events' = events
             /\ tasks' = tasks
             /\ \A period \in ReportPeriod, NOW \in Ticks :
                    get_report(Db', period, NOW).body.comments_count
                        = get_report(Db, period, NOW).body.comments_count]_vars

\* A second comment has just been added to a task: its log still holds the
\* Create event alone, and today's report counts that event and no comment.
C39_Witness ==
    /\ last.op = "comment"
    /\ last.exc = NoExc
    /\ last.task_id \in DOMAIN tasks
    /\ Len(CommentsIn(comments, last.task_id)) = 2
    /\ Len(EventsOf(last.task_id)) = 1
    /\ get_report(Db, TODAY, now).body.created_count = 1
    /\ get_report(Db, TODAY, now).body.comments_count = 0

\* The store with the archived flag of one task cleared.
NotArchived(db, task_id) == [db EXCEPT !.tasks[task_id].archived = FALSE]

\* The outcome r of an operation on the store with the flag cleared is the
\* outcome the step had: the same exception, the same task_events and
\* task_comments, and the same rows of tasks apart from the archived flag of
\* the addressed task, which is `archived` in r.
SameOutcome(r, archived) ==
    r = [exc |-> Req.exc,
         db |-> [tasks |-> [tasks' EXCEPT ![Req.task_id].archived = archived],
                 events |-> events',
                 comments |-> comments']]

\* C40: an update, status transition, archive, unarchive or comment request on
\* an archived task does what the same request does on the same store with the
\* task not archived: the same outcome, the same events and comments written
\* and the same row except for the flag itself, which update, status
\* transition and comment leave alone and archive and unarchive overwrite.
C40_ArchivedNeverBlocks ==
    [][(Req.task_id \in DOMAIN tasks /\ Before.archived)
          => LET id == Req.task_id
                 db == NotArchived(Db, id)
             IN  /\ Req.op = "update"
                    => SameOutcome(update_task(db, id, Req.payload), FALSE)
                 /\ Req.op = "status"
                    => \E t1 \in Later(now) : \E t2 \in Later(t1) :
                           SameOutcome(update_task_status(db, id, Req.status, t1, t2), FALSE)
                 /\ Req.op = "archive"
                    => \E t1 \in Later(now) : SameOutcome(archive_task(db, id, t1), TRUE)
                 /\ Req.op = "unarchive"
                    => \E t1 \in Later(now) : SameOutcome(unarchive_task(db, id, t1), FALSE)
                 /\ Req.op = "comment"
                    => \E t1 \in Later(now) :
                           SameOutcome(add_task_comment(db, id, Req.payload.content, t1),
                                       FALSE)]_vars

\* A status transition has completed a Todo task that was archived before it:
\* the log ends with the Archived event followed by the Done event.
C40_Witness ==
    /\ last.op = "status"
    /\ last.exc = NoExc
    /\ last.task_id \in DOMAIN tasks
    /\ tasks[last.task_id].task_type = TODO
    /\ tasks[last.task_id].archived
    /\ tasks[last.task_id].done
    /\ Len(EventsOf(last.task_id)) = 3
    /\ EventsOf(last.task_id)[2].event_type = ARCHIVED
    /\ EventsOf(last.task_id)[3].event_type = DONE

====
